---- MODULE Spec2Model ----
(***************************************************************************)
(* alibi_detect/models/trainer.py: trainer(), the epoch / mini-batch       *)
(* training loop.  One behaviour is the life of the module: the default    *)
(* optimizer is created when the module is loaded, then trainer is called  *)
(* and runs statement by statement (pc names the statement about to run).  *)
(*                                                                         *)
(* Tensors are sequences of integers (one entry per example); the          *)
(* caller-supplied capabilities are fixed to small concrete instances:     *)
(*   model      a one-weight linear model, pred[i] = w * x[i]; the         *)
(*              multi-output model returns [pred, ones] and exposes one    *)
(*              auxiliary loss (model.losses = [1])                        *)
(*   loss_fn    absolute error per example, plus the extra outputs;        *)
(*              reduce=True in the kwargs sums it to a scalar              *)
(*   optimizer  an object with the iterations counter every keras          *)
(*              optimizer carries; its update is gradient descent with     *)
(*              unit learning rate (the arithmetic of Adam, the default,   *)
(*              is the framework's and is not modelled)                    *)
(*   metric     a streaming mean of absolute error (total, count)          *)
(***************************************************************************)
EXTENDS Integers, Sequences, FiniteSets

\* ---------------------------------------------------------------- bounds
MaxN == 3
MaxBatch == 3
MaxBuffer == 2
MaxEpochs == 2
MaxCalls == 2

\* ---------------------------------------------------------------- helpers
Min(a, b) == IF a < b THEN a ELSE b

Abs(a) == IF a < 0 THEN -a ELSE a

Sign(a) == IF a > 0 THEN 1 ELSE IF a < 0 THEN -1 ELSE 0

RECURSIVE SumSeq(_)
SumSeq(s) == IF s = <<>> THEN 0 ELSE Head(s) + SumSeq(Tail(s))

\* python None for an array argument: a real array has N >= 1 rows
None == <<>>

\* the training arrays of a call with N rows: row i of X_train and its label
XRow(i) == (i + 1) % 3
YRow(i) == i
XData(n) == [i \in 1..n |-> XRow(i)]
YData(n) == [i \in 1..n |-> YRow(i)]

\* loss_fn_kwargs: None, {} or {"reduce": True}
NoKwargs == [given |-> FALSE, items |-> {}]
EmptyKwargs == [given |-> TRUE, items |-> {}]
ReduceKwargs == [given |-> TRUE, items |-> {<<"reduce", TRUE>>}]
KwargsChoices == {NoKwargs, EmptyKwargs, ReduceKwargs}

\* `if loss_fn_kwargs:`  (None and {} are both falsy)
Truthy(k) == k.given /\ k.items # {}

\* a fresh optimizer / metric object
FreshOptimizer == [iterations |-> 0]
FreshMetric == [count |-> 0, total |-> 0]

NoPbar == [exists |-> FALSE, target |-> 0, seen |-> 0]
NoTensor == [scalar |-> FALSE, v |-> <<>>]
NoPreds == [tensor |-> TRUE, outs |-> <<>>]
NoCall == [args |-> <<>>, kwargs |-> {}]
NoValues == [loss |-> <<>>, metric |-> <<>>]

VARIABLES
    pc,               \* the statement about to run
    X_train, y_train, loss_fn_kwargs, epochs, batch_size, buffer_size,
    verbose, log_metric, optimizer, multi_output,     \* the call's arguments
    weights,          \* model.trainable_weights
    default_optimizer,\* the Adam instance of the signature's default value
    user_optimizer,   \* the optimizer object a caller passes
    metric,           \* log_metric[1], the caller's metric object
    n_minibatch, epoch, step,
    buffer, next_in,  \* the shuffle iterator of train_data
    train_batch,      \* the row indices of the current batch
    X_train_batch, y_train_batch, preds, ground_truth,
    loss_call,        \* the arguments of the last loss_fn call
    loss, grads,
    pbar, pbar_values,
    calls,            \* how many times trainer has been called
    \* history, read by the properties only
    before,           \* the caller's objects as they were when the call began
    weights0, weights_fwd, covered, pbars_created,
    n_forward, n_grads, n_applied, grad_sum, grad_nonzero, failed_step

vars == <<pc, X_train, y_train, loss_fn_kwargs, epochs, batch_size, buffer_size,
          verbose, log_metric, optimizer, multi_output, weights,
          default_optimizer, user_optimizer, metric, n_minibatch, epoch, step,
          buffer, next_in, train_batch, X_train_batch, y_train_batch, preds,
          ground_truth, loss_call, loss, grads, pbar, pbar_values, calls, before,
          weights0, weights_fwd, covered, pbars_created,
          n_forward, n_grads, n_applied, grad_sum, grad_nonzero, failed_step>>

argVars == <<X_train, y_train, loss_fn_kwargs, epochs, batch_size, buffer_size,
             verbose, log_metric, optimizer, multi_output, n_minibatch, weights0,
             calls, before>>

batchVars == <<train_batch, X_train_batch, y_train_batch, preds, ground_truth,
               loss_call, loss, grads>>

N == Len(X_train)

\* ---------------------------------------------------------------- pure parts
\* variant: the division is rounded down
FloorDiv(n, b) == n \div b

\* int(np.ceil(X_train.shape[0] / batch_size))
CeilDiv(n, b) == IF n % b = 0 THEN n \div b ELSE (n \div b) + 1

\* from_tensor_slices: element i is X_train[i], or the pair (X_train[i], y_train[i])
XSlice(idx) == [j \in 1..Len(idx) |-> X_train[idx[j]]]
\* variant: the labels are batched in their original order while the inputs
\* are shuffled
YSliceUnshuffled(idx) == [j \in 1..Len(idx) |-> y_train[j]]
YSlice(idx) == [j \in 1..Len(idx) |-> y_train[idx[j]]]

\* Dataset.shuffle(buffer_size): the buffer holds the next buffer_size elements
\* of the input; each output is drawn from the buffer and replaced by the next
\* input element.  The iterator state is <<buffer, next_in>>.
ShuffleStart(n, bsize) == [buf |-> 1..Min(bsize, n), nxt |-> Min(bsize, n) + 1]

\* variant: the shuffle never refills its buffer, so it drops every element
\* beyond the first buffer_size
ShuffleDrawNoRefill(it, i, n) == [buf |-> it.buf \ {i}, nxt |-> it.nxt]

ShuffleDraw(it, i, n) ==
    IF it.nxt <= n
    THEN [buf |-> (it.buf \ {i}) \cup {it.nxt}, nxt |-> it.nxt + 1]
    ELSE [buf |-> it.buf \ {i}, nxt |-> it.nxt]

\* Dataset.batch(batch_size): up to batch_size consecutive outputs of the
\* shuffle, the last batch of an epoch being the remainder.  The set of
\* <<rows, iterator after>> the next batch can be.
RECURSIVE NextBatches(_, _, _, _)
NextBatches(it, rows, want, n) ==
    IF want = 0 \/ it.buf = {}
    THEN {<<rows, it>>}
    ELSE UNION {NextBatches(ShuffleDraw(it, i, n), Append(rows, i), want - 1, n) :
                i \in it.buf}

\* model(X_train_batch)
Model(w, Xb, multi) ==
    IF multi
    THEN [tensor |-> FALSE,
          outs |-> <<[i \in 1..Len(Xb) |-> w * Xb[i]], [i \in 1..Len(Xb) |-> 1]>>]
    ELSE [tensor |-> TRUE, outs |-> <<[i \in 1..Len(Xb) |-> w * Xb[i]]>>]

\* model.losses
ModelLosses(multi) == IF multi THEN <<1>> ELSE <<>>

GroundTruth(Xb, yb) == IF y_train = None THEN Xb ELSE yb

\* variant: only the first output of a multi-output model reaches the loss
LossArgsFirstOnly(gt, p) == <<gt, p.outs[1]>>

\* args = [ground_truth, preds] or [ground_truth] + list(preds)
LossArgs(gt, p) == IF p.tensor THEN <<gt, p.outs[1]>> ELSE <<gt>> \o p.outs

\* **loss_fn_kwargs, or no keyword argument
LossKwargs(k) == IF Truthy(k) THEN k.items ELSE {}

\* loss_fn(*args, **kwargs)
LossFn(args, kw) ==
    LET b == Len(args[1])
        per == [i \in 1..b |-> Abs(args[1][i] - args[2][i])
                               + SumSeq([k \in 1..(Len(args) - 2) |-> args[k + 2][i]])]
    IN  IF <<"reduce", TRUE>> \in kw
        THEN [scalar |-> TRUE, v |-> <<SumSeq(per)>>]
        ELSE [scalar |-> FALSE, v |-> per]

\* loss += sum(model.losses)
AddModelLosses(l, extra) ==
    IF extra # <<>>
    THEN [scalar |-> l.scalar, v |-> [i \in 1..Len(l.v) |-> l.v[i] + SumSeq(extra)]]
    ELSE l

\* tape.gradient(loss, model.trainable_weights): d/dw of the summed loss
Gradient(w, Xb, gt) ==
    SumSeq([i \in 1..Len(Xb) |-> (0 - Sign(gt[i] - w * Xb[i])) * Xb[i]])

\* variant: the step is counted but the weights are left as they were
ApplyGradientsNoUpdate(opt, w, g) ==
    [opt |-> [iterations |-> opt.iterations + 1], w |-> w]

\* optimizer.apply_gradients(zip(grads, model.trainable_weights))
ApplyGradients(opt, w, g) ==
    [opt |-> [iterations |-> opt.iterations + 1], w |-> w - g]

\* loss_val as shown: entries are <<numerator, denominator>>
Shown(l) == [i \in 1..Len(l.v) |-> <<l.v[i], 1>>]

\* variant: the padding repeats the batch's summed loss, not its mean
LossValPadSum(l, bsize) ==
    IF ~l.scalar /\ <<Len(l.v)>> # <<bsize>>
    THEN Shown(l) \o [i \in 1..(bsize - Len(l.v)) |-> <<SumSeq(l.v), 1>>]
    ELSE Shown(l)

\* lines 96-99: pad a short per-example loss with its mean
LossVal(l, bsize) ==
    IF ~l.scalar /\ <<Len(l.v)>> # <<bsize>>
    THEN Shown(l) \o [i \in 1..(bsize - Len(l.v)) |-> <<SumSeq(l.v), Len(l.v)>>]
    ELSE Shown(l)

\* variant: the metric is reset before every update
MetricUpdateReset(m, gt, p) ==
    [count |-> 1,
     total |-> SumSeq([k \in 1..Len(p.outs) |->
                       SumSeq([i \in 1..Len(gt) |-> Abs(gt[i] - p.outs[k][i])])])]

\* log_metric[1](ground_truth, preds)
MetricUpdate(m, gt, p) ==
    [count |-> m.count + 1,
     total |-> m.total
               + SumSeq([k \in 1..Len(p.outs) |->
                         SumSeq([i \in 1..Len(gt) |-> Abs(gt[i] - p.outs[k][i])])])]

\* log_metric[1].result()
MetricResult(m) == <<m.total, m.count>>

\* ---------------------------------------------------------------- the program
Init ==
    /\ pc = "idle"
    /\ X_train = <<>> /\ y_train = None /\ loss_fn_kwargs = NoKwargs
    /\ epochs = 0 /\ batch_size = 1 /\ buffer_size = 1
    /\ verbose = FALSE /\ log_metric = FALSE /\ optimizer = "default"
    /\ multi_output = FALSE
    /\ weights = 0
    /\ default_optimizer = FreshOptimizer
    /\ user_optimizer = FreshOptimizer
    /\ metric = FreshMetric
    /\ n_minibatch = 0 /\ epoch = 0 /\ step = 0
    /\ buffer = {} /\ next_in = 1
    /\ train_batch = <<>> /\ X_train_batch = <<>> /\ y_train_batch = <<>>
    /\ preds = NoPreds /\ ground_truth = <<>>
    /\ loss_call = NoCall /\ loss = NoTensor /\ grads = 0
    /\ pbar = NoPbar /\ pbar_values = NoValues
    /\ calls = 0
    /\ before = [default_optimizer |-> FreshOptimizer,
                 user_optimizer |-> FreshOptimizer, metric |-> FreshMetric]
    /\ weights0 = 0 /\ weights_fwd = 0 /\ covered = {} /\ pbars_created = 0
    /\ n_forward = 0 /\ n_grads = 0 /\ n_applied = 0
    /\ grad_sum = 0 /\ grad_nonzero = FALSE /\ failed_step = 0

\* the part of entering trainer that does not depend on the arguments
Enter ==
    /\ epoch' = 0 /\ step' = 0
    /\ calls' = calls + 1
    /\ before' = [default_optimizer |-> default_optimizer,
                  user_optimizer |-> user_optimizer, metric |-> metric]
    /\ weights0' = weights
    /\ pbar' = NoPbar /\ pbar_values' = NoValues
    /\ train_batch' = <<>> /\ X_train_batch' = <<>> /\ y_train_batch' = <<>>
    /\ preds' = NoPreds /\ ground_truth' = <<>>
    /\ loss_call' = NoCall /\ loss' = NoTensor /\ grads' = 0
    /\ buffer' = {} /\ next_in' = 1
    /\ weights_fwd' = weights /\ covered' = {} /\ pbars_created' = 0
    /\ n_forward' = 0 /\ n_grads' = 0 /\ n_applied' = 0
    /\ grad_sum' = 0 /\ grad_nonzero' = FALSE /\ failed_step' = 0
    /\ pc' = "epoch"

\* trainer(...) is entered: lines 6-17 bind the arguments, 49-55 build the dataset
Call ==
    /\ pc = "idle"
    /\ \E n \in 1..MaxN, sup \in BOOLEAN :
          /\ X_train' = XData(n)
          /\ y_train' = IF sup THEN YData(n) ELSE None
          /\ \E b \in 1..MaxBatch :
                /\ batch_size' = b
                /\ n_minibatch' = CeilDiv(n, b)
    /\ loss_fn_kwargs' \in KwargsChoices
    /\ epochs' \in 0..MaxEpochs
    /\ buffer_size' \in 1..MaxBuffer
    /\ verbose' \in BOOLEAN
    /\ log_metric' \in BOOLEAN
    /\ optimizer' \in {"default", "user"}
    /\ multi_output' \in BOOLEAN
    /\ Enter
    /\ UNCHANGED <<weights, default_optimizer, user_optimizer, metric>>

\* the caller calls trainer once more with the arguments of the call that
\* has returned; the locals of that call are gone
CallAgain ==
    /\ pc = "done"
    /\ calls < MaxCalls
    /\ Enter
    /\ UNCHANGED <<X_train, y_train, loss_fn_kwargs, epochs, batch_size,
                   buffer_size, verbose, log_metric, optimizer, multi_output,
                   n_minibatch, weights, default_optimizer, user_optimizer,
                   metric>>

\* variant: the loop runs one epoch too many
MoreEpochsOneExtra == epoch <= epochs

\* line 58: for epoch in range(epochs)
MoreEpochs == epoch < epochs

\* line 58-60: the next epoch starts (a fresh Progbar, a fresh shuffle), or the
\* loop is over and trainer returns
EpochStart ==
    /\ pc = "epoch"
    /\ MoreEpochs
    /\ pbar' = IF verbose THEN [exists |-> TRUE, target |-> n_minibatch, seen |-> 0]
               ELSE pbar
    /\ pbars_created' = IF verbose THEN pbars_created + 1 ELSE pbars_created
    /\ LET it == ShuffleStart(N, buffer_size)
       IN  buffer' = it.buf /\ next_in' = it.nxt
    /\ step' = 0
    /\ covered' = {}
    /\ pc' = "fetch"
    /\ UNCHANGED <<argVars, weights, default_optimizer, user_optimizer, metric,
                   epoch, batchVars, pbar_values, weights_fwd, n_forward, n_grads,
                   n_applied, grad_sum, grad_nonzero, failed_step>>

Return ==
    /\ pc = "epoch"
    /\ ~MoreEpochs
    /\ pc' = "done"
    /\ UNCHANGED <<argVars, weights, default_optimizer, user_optimizer, metric,
                   epoch, step, buffer, next_in, batchVars, pbar, pbar_values,
                   weights_fwd, covered, pbars_created, n_forward, n_grads,
                   n_applied, grad_sum, grad_nonzero, failed_step>>

\* line 63-68: the iterator yields the next batch and it is unpacked
Fetch ==
    /\ pc = "fetch"
    /\ buffer # {}
    /\ \E nb \in NextBatches([buf |-> buffer, nxt |-> next_in], <<>>, batch_size, N) :
          /\ train_batch' = nb[1]
          /\ X_train_batch' = XSlice(nb[1])
          /\ y_train_batch' = IF y_train = None THEN <<>> ELSE YSlice(nb[1])
          /\ buffer' = nb[2].buf
          /\ next_in' = nb[2].nxt
          /\ covered' = covered \cup {nb[1][j] : j \in 1..Len(nb[1])}
    /\ pc' = "forward"
    /\ UNCHANGED <<argVars, weights, default_optimizer, user_optimizer, metric,
                   epoch, step, preds, ground_truth, loss_call, loss, grads, pbar,
                   pbar_values, weights_fwd, pbars_created, n_forward, n_grads,
                   n_applied, grad_sum, grad_nonzero, failed_step>>

\* line 63: the iterator is exhausted, the epoch is over
EpochEnd ==
    /\ pc = "fetch"
    /\ buffer = {}
    /\ epoch' = epoch + 1
    /\ pc' = "epoch"
    /\ UNCHANGED <<argVars, weights, default_optimizer, user_optimizer, metric,
                   step, buffer, next_in, batchVars, pbar, pbar_values, weights_fwd,
                   covered, pbars_created, n_forward, n_grads, n_applied, grad_sum,
                   grad_nonzero, failed_step>>

\* line 70-76
Forward ==
    /\ pc = "forward"
    /\ preds' = Model(weights, X_train_batch, multi_output)
    /\ ground_truth' = GroundTruth(X_train_batch, y_train_batch)
    /\ weights_fwd' = weights
    /\ n_forward' = n_forward + 1
    /\ pc' = "loss"
    /\ UNCHANGED <<argVars, weights, default_optimizer, user_optimizer, metric,
                   epoch, step, buffer, next_in, train_batch, X_train_batch,
                   y_train_batch, loss_call, loss, grads, pbar, pbar_values,
                   covered, pbars_created, n_grads, n_applied, grad_sum,
                   grad_nonzero, failed_step>>

\* line 78-90
ComputeLoss ==
    /\ pc = "loss"
    /\ LET args == LossArgs(ground_truth, preds)
           kw == LossKwargs(loss_fn_kwargs)
       IN  /\ loss_call' = [args |-> args, kwargs |-> kw]
           /\ loss' = AddModelLosses(LossFn(args, kw), ModelLosses(multi_output))
    /\ pc' = "grad"
    /\ UNCHANGED <<argVars, weights, default_optimizer, user_optimizer, metric,
                   epoch, step, buffer, next_in, train_batch, X_train_batch,
                   y_train_batch, preds, ground_truth, grads, pbar, pbar_values,
                   weights_fwd, covered, pbars_created, n_forward, n_grads,
                   n_applied, grad_sum, grad_nonzero, failed_step>>

\* line 92
ComputeGrads ==
    /\ pc = "grad"
    /\ grads' = Gradient(weights, X_train_batch, ground_truth)
    /\ n_grads' = n_grads + 1
    /\ grad_nonzero' = (grad_nonzero \/ grads' # 0)
    /\ pc' = "apply"
    /\ UNCHANGED <<argVars, weights, default_optimizer, user_optimizer, metric,
                   epoch, step, buffer, next_in, train_batch, X_train_batch,
                   y_train_batch, preds, ground_truth, loss_call, loss, pbar,
                   pbar_values, weights_fwd, covered, pbars_created, n_forward,
                   n_applied, grad_sum, failed_step>>

\* line 93
OptimizerStep ==
    /\ pc = "apply"
    /\ LET r == ApplyGradients(IF optimizer = "default" THEN default_optimizer
                               ELSE user_optimizer, weights, grads)
       IN  /\ weights' = r.w
           /\ default_optimizer' = IF optimizer = "default" THEN r.opt
                                   ELSE default_optimizer
           /\ user_optimizer' = IF optimizer = "default" THEN user_optimizer
                                ELSE r.opt
    /\ n_applied' = n_applied + 1
    /\ grad_sum' = grad_sum + grads
    /\ pc' = "report"
    /\ UNCHANGED <<argVars, metric, epoch, step, buffer, next_in, batchVars, pbar,
                   pbar_values, weights_fwd, covered, pbars_created, n_forward,
                   n_grads, grad_nonzero, failed_step>>

\* line 95-104, and the loop's step counter
Report ==
    /\ pc = "report"
    /\ IF verbose
       THEN /\ metric' = IF log_metric THEN MetricUpdate(metric, ground_truth, preds)
                         ELSE metric
            /\ pbar_values' = [loss |-> LossVal(loss, batch_size),
                               metric |-> IF log_metric THEN MetricResult(metric')
                                          ELSE <<>>]
            /\ pbar' = [pbar EXCEPT !.seen = @ + 1]
       ELSE UNCHANGED <<metric, pbar_values, pbar>>
    /\ step' = step + 1
    /\ pc' = "fetch"
    /\ UNCHANGED <<argVars, weights, default_optimizer, user_optimizer, epoch,
                   buffer, next_in, batchVars, weights_fwd, covered, pbars_created,
                   n_forward, n_grads, n_applied, grad_sum, grad_nonzero,
                   failed_step>>

\* variant: the failure is swallowed and the loop goes on with the next batch
RaiseAndSkip ==
    /\ pc \in {"forward", "loss", "grad", "apply"}
    /\ failed_step' = epoch * n_minibatch + step + 1
    /\ step' = step + 1
    /\ pc' = "fetch"
    /\ UNCHANGED <<argVars, weights, default_optimizer, user_optimizer, metric,
                   epoch, buffer, next_in, batchVars, pbar, pbar_values,
                   weights_fwd, covered, pbars_created, n_forward, n_grads,
                   n_applied, grad_sum, grad_nonzero>>

\* a framework call of lines 71, 85/87, 92 or 93 raises: nothing in trainer
\* catches it, the call ends
Raise ==
    /\ pc \in {"forward", "loss", "grad", "apply"}
    /\ failed_step' = epoch * n_minibatch + step + 1
    /\ pc' = "raised"
    /\ UNCHANGED <<argVars, weights, default_optimizer, user_optimizer, metric,
                   epoch, step, buffer, next_in, batchVars, pbar, pbar_values,
                   weights_fwd, covered, pbars_created, n_forward, n_grads,
                   n_applied, grad_sum, grad_nonzero>>

Run == EpochStart \/ Return \/ Fetch \/ EpochEnd \/ Forward \/ ComputeLoss
       \/ ComputeGrads \/ OptimizerStep \/ Report

\* one call of trainer
Next == Call \/ Run \/ Raise

Spec == Init /\ [][Next]_vars

\* up to MaxCalls successive calls on the same model, optimizer and metric
NextCalls == Call \/ CallAgain \/ Run \/ Raise

SpecCalls == Init /\ [][NextCalls]_vars

\* ---------------------------------------------------------------- properties
\* ceil(n / b) as the least k with k * b >= n
Ceil(n, b) == CHOOSE k \in 0..n : k * b >= n /\ (k - 1) * b < n

InBatch == pc \in {"forward", "loss", "grad", "apply", "report"}
LossCalled == pc \in {"grad", "apply", "report"}
Rows(idx) == {idx[j] : j \in 1..Len(idx)}

\* C1: an epoch processes exactly ceil(N/B) batches which together hold every
\* one of the N examples; every batch has B examples, except the last, which
\* has N - B*(ceil(N/B)-1).
C1_EpochCoversData ==
    /\ (pc \in {"epoch", "done"} /\ epoch > 0) =>
          /\ step = Ceil(N, batch_size)
          /\ covered = 1..N
    /\ InBatch =>
          /\ step < Ceil(N, batch_size)
          /\ Cardinality(Rows(train_batch)) = Len(train_batch)
          /\ Len(train_batch) = IF step < Ceil(N, batch_size) - 1 THEN batch_size
                                ELSE N - batch_size * (Ceil(N, batch_size) - 1)

\* an epoch over 3 rows in batches of 2 has ended, shuffled: rows 2, 3 then row 1
C1_Witness ==
    /\ pc = "epoch" /\ epoch = 1 /\ N = 3 /\ batch_size = 2 /\ buffer_size = 2
    /\ step = 2 /\ train_batch = <<1>>

\* C2: the ground truth given to the loss is the input batch when y_train is
\* None, and otherwise the labels of exactly the rows of the input batch, in
\* the same order.
C2_GroundTruthPaired ==
    LossCalled =>
        /\ X_train_batch = [j \in 1..Len(train_batch) |-> X_train[train_batch[j]]]
        /\ loss_call.args[1] =
              IF y_train = None THEN X_train_batch
              ELSE [j \in 1..Len(train_batch) |-> y_train[train_batch[j]]]

\* a supervised step on a batch the shuffle has reordered
C2_Witness ==
    /\ pc = "grad" /\ y_train # None /\ train_batch = <<2, 1>>
    /\ loss_call.args[1] = <<2, 1>>

\* C3: the loss is called with (ground_truth, prediction) for a single tensor
\* and (ground_truth, out_1, ..., out_k) for a sequence of k outputs, with the
\* kwargs of loss_fn_kwargs when given and none otherwise.
C3_LossArguments ==
    LossCalled =>
        /\ loss_call.args[1] = ground_truth
        /\ preds.tensor => loss_call.args = <<ground_truth, preds.outs[1]>>
        /\ ~preds.tensor =>
              /\ Len(loss_call.args) = 1 + Len(preds.outs)
              /\ \A k \in 1..Len(preds.outs) : loss_call.args[k + 1] = preds.outs[k]
        /\ loss_call.kwargs = IF loss_fn_kwargs.given THEN loss_fn_kwargs.items ELSE {}

\* a two-output model and a non-empty kwargs dict
C3_Witness ==
    /\ pc = "grad" /\ multi_output /\ ~preds.tensor /\ Len(loss_call.args) = 3
    /\ loss_fn_kwargs = ReduceKwargs /\ loss_call.kwargs # {}

\* C4: a per-example loss of length b < batch_size is shown as a vector of
\* length batch_size, the b losses followed by their mean; a scalar or a full
\* vector is shown as it is; the shown value is built in the report statement,
\* after the batch's optimizer step, and the loss tensor itself is never
\* padded.  First the state part, then the claim.
ShownAsClaimed ==
    LET b == Len(loss.v)
        shown == pbar_values.loss
    IN  /\ (pc = "fetch" /\ verbose /\ step > 0) =>
              IF ~loss.scalar /\ b < batch_size
              THEN /\ Len(shown) = batch_size
                   /\ \A i \in 1..b : shown[i] = <<loss.v[i], 1>>
                   /\ \A i \in (b + 1)..batch_size : shown[i] = <<SumSeq(loss.v), b>>
              ELSE shown = [i \in 1..b |-> <<loss.v[i], 1>>]
        /\ (LossCalled /\ ~loss.scalar) => b = Len(train_batch)
        /\ (LossCalled /\ loss.scalar) => b = 1

C4_ShownLoss ==
    /\ []ShownAsClaimed
    /\ [][pbar_values' # pbar_values =>
             (pc = "report" /\ n_applied = n_forward /\ n_applied' = n_applied
              /\ weights' = weights /\ grads' = grads /\ loss' = loss)]_vars

\* the last batch of 3 rows in batches of 2 has been reported: one loss, one mean
C4_Witness ==
    /\ pc = "fetch" /\ verbose /\ step = 2 /\ N = 3 /\ batch_size = 2
    /\ ~loss.scalar /\ Len(loss.v) = 1
    /\ pbar_values.loss = <<<<loss.v[1], 1>>, <<loss.v[1], 1>>>>

\* the optimizer object the call uses, and what it was when the call began
UsedOptimizer == IF optimizer = "default" THEN default_optimizer ELSE user_optimizer
UsedOptimizerBefore ==
    IF optimizer = "default" THEN before.default_optimizer ELSE before.user_optimizer

\* the batches the call has processed to the end so far
Processed ==
    IF pc \in {"idle"} THEN 0
    ELSE IF pc \in {"epoch", "done"} THEN epoch * Ceil(N, batch_size)
    ELSE epoch * Ceil(N, batch_size) + step

\* C5: when a call has returned, the caller-visible state other than the
\* model's parameters is as it was before the call, also for a call that omits
\* the optimizer, which uses the module's default optimizer; so every call
\* that omits the optimizer starts from the same (fresh) optimizer state.
C5_OnlyParametersOutlive ==
    /\ (pc = "done" /\ optimizer = "default") =>
          default_optimizer = before.default_optimizer
    /\ (pc = "epoch" /\ epoch = 0 /\ optimizer = "default") =>
          default_optimizer = FreshOptimizer

C7_FailureEndsCall ==
    /\ failed_step # 0 =>
          /\ pc = "raised"
          /\ n_applied = failed_step - 1
          /\ UsedOptimizer.iterations = UsedOptimizerBefore.iterations + failed_step - 1
          /\ weights = weights0 - grad_sum
          /\ n_forward <= failed_step
    /\ pc = "raised" => failed_step = epoch * Ceil(N, batch_size) + step + 1

\* the third step of a call failed in the optimizer after two steps that moved
\* the parameters
C7_Witness ==
    /\ pc = "raised" /\ failed_step = 3 /\ n_applied = 2 /\ n_grads = 3
    /\ weights # weights0

\* C8: the call terminates unless a step fails; when it has returned it has
\* applied epochs * ceil(N/B) optimizer steps, one per processed batch, each
\* after the batch's gradient and before the next batch's forward pass; with
\* epochs = 0 no step is applied and the parameters are unchanged.
\* Termination is stated by a variant: the statements the call has left to
\* run, a natural number that is 0 only once the call has returned; while the
\* call runs its next statement can always run, and every statement that does
\* not raise lowers the variant by one.
Running == pc \in {"epoch", "fetch", "forward", "loss", "grad", "apply", "report"}

StatementsLeft ==
    LET nb == Ceil(N, batch_size)
        laterEpochs == (epochs - epoch - 1) * (2 + 6 * nb)
    IN  CASE pc = "epoch" -> (epochs - epoch) * (2 + 6 * nb) + 1
          [] pc = "fetch" -> laterEpochs + 2 + 6 * (nb - step)
          [] pc = "forward" -> laterEpochs + 2 + 6 * (nb - step - 1) + 5
          [] pc = "loss" -> laterEpochs + 2 + 6 * (nb - step - 1) + 4
          [] pc = "grad" -> laterEpochs + 2 + 6 * (nb - step - 1) + 3
          [] pc = "apply" -> laterEpochs + 2 + 6 * (nb - step - 1) + 2
          [] pc = "report" -> laterEpochs + 2 + 6 * (nb - step - 1) + 1
          [] OTHER -> 0

StepsInOrder ==
    /\ n_applied <= n_grads /\ n_grads <= n_forward /\ n_forward <= n_applied + 1
    /\ UsedOptimizer.iterations = UsedOptimizerBefore.iterations + n_applied
    /\ pc \in {"fetch", "epoch", "done"} => n_applied = Processed
    /\ pc = "done" =>
          /\ n_applied = epochs * Ceil(N, batch_size)
          /\ epochs = 0 => (n_applied = 0 /\ weights = weights0)
    /\ Running => (StatementsLeft > 0 /\ ENABLED Run)

C8_TerminatesWithAllSteps ==
    /\ []StepsInOrder
    /\ [][(Running /\ pc' # "raised") => StatementsLeft' = StatementsLeft - 1]_vars

\* a call of two epochs over two batches has returned
C8_Witness ==
    /\ pc = "done" /\ epochs = 2 /\ N = 3 /\ batch_size = 2
    /\ UsedOptimizer.iterations = 4

\* C9: a verbose call creates a Progbar with target ceil(N/batch_size) at the
\* start of every epoch and advances it once per processed batch: the count
\* never exceeds the target and equals it when the epoch ends; a call that is
\* not verbose creates and advances none.
C9_ProgressBar ==
    /\ (verbose /\ pc \in {"fetch", "forward", "loss", "grad", "apply", "report"}) =>
          /\ pbar.exists
          /\ pbar.target = Ceil(N, batch_size)
          /\ pbar.seen = step
          /\ pbar.seen <= pbar.target
          /\ pbars_created = epoch + 1
    /\ (verbose /\ pc \in {"epoch", "done"}) =>
          /\ pbars_created = epoch
          /\ epoch > 0 => (pbar.exists /\ pbar.seen = pbar.target
                           /\ pbar.target = Ceil(N, batch_size))
    /\ (~verbose) => (pbar = NoPbar /\ pbars_created = 0)

\* the second epoch of a verbose call ended with its bar full
C9_Witness ==
    /\ pc = "epoch" /\ epoch = 2 /\ verbose /\ N = 3 /\ batch_size = 2
    /\ pbar = [exists |-> TRUE, target |-> 2, seen |-> 2] /\ pbars_created = 2

\* C10: the metric is updated once per processed batch exactly when verbose is
\* true and log_metric is given, with the ground truth and the predictions of
\* the forward pass (made before the batch's optimizer step); it is never
\* reset, so its count is the number of batches processed so far and the shown
\* result aggregates all of them.
MetricCounts ==
    metric.count = before.metric.count
                   + (IF verbose /\ log_metric THEN Processed ELSE 0)

C10_MetricUpdates ==
    /\ []MetricCounts
    /\ [][metric' # metric =>
             /\ pc = "report" /\ verbose /\ log_metric
             /\ n_applied = n_forward
             /\ weights = weights_fwd - grads
             /\ metric' = MetricUpdate(metric, ground_truth,
                                       Model(weights_fwd, X_train_batch, multi_output))
             /\ pbar_values'.metric = <<metric'.total, metric'.count>>]_vars

\* a verbose call with a metric has returned after two epochs of two batches
C10_Witness ==
    /\ pc = "done" /\ verbose /\ log_metric /\ epochs = 2 /\ N = 3 /\ batch_size = 2
    /\ metric.count = 4 /\ pbar_values.metric = <<metric.total, 4>>

====
